---- MODULE Spec2Model ----
(***************************************************************************)
(* Plex-Music-Meta: the sequential enrichment run of src/main.py over the  *)
(* library's artists, with the processing ledger of                        *)
(* src/database_handler.py, the catalog matcher of src/spotify_handler.py  *)
(* and the reconciler of src/plex_handler.py.                              *)
(*                                                                         *)
(* Time is counted in units of half a second, the smallest delay the       *)
(* program sleeps (main.py:106).  The program only ever compares time      *)
(* differences, so the model keeps ages (time elapsed since an event),     *)
(* cut off at the largest value a comparison can tell apart.               *)
(***************************************************************************)
EXTENDS Integers, FiniteSets, Sequences, TLC

\* ---------------------------------------------------------------- bounds
NumArtists == 2       \* artists returned by get_all_artists()
MaxRuns == 2          \* executions of main() against the same ledger file
MaxRetryAfter == 2    \* largest Retry-After (seconds) the catalog sends
RecursionLimit == 3   \* nested calls the interpreter allows (sys.getrecursionlimit())
MaxImages == 3        \* longest list of images the catalog returns for an artist
BatchSize == 2        \* artists given to one process_artist_batch call
MaxAlbums == 2        \* most albums the library holds for an artist

\* ------------------------------------------------------ program constants
rate_limit_delay == 2 \* spotify_handler.py:17, 1 second
cooldown_step == 2    \* spotify_handler.py:46, time.sleep(1)
courtesy_sleep == 1   \* main.py:106, time.sleep(0.5)
min_poster_side == 200 \* plex_handler.py:124, pixels
min_thumb_bytes == 1000   \* plex_handler.py:240, content_size < 1000
min_thumb_side == 100     \* plex_handler.py:256, width < 100 or height < 100
max_workers == 4      \* plex_handler.py:17

Artists == 1..NumArtists
NoneId == 0                     \* spotify_id=None
SpotifyId(a) == a               \* the catalog's id of the top hit for a's title
Title(a) == a                   \* artist.title
NoError == "None"               \* error_message=None, and no exception pending
PlexError == "plex_error"       \* str(e) of an exception of the library client
RetryAfterError == "retry_after_error" \* str(e) of int() on a Retry-After that is no integer
RecursionError == "recursion_error" \* str(e) of the interpreter's RecursionError
DbError == "db_error"           \* str(e) of sqlite3.Error
NotFoundInCatalog == "Not found in catalog"   \* the text spec.md gives for it
NotFoundMsg == "Not found on Spotify"         \* main.py:102
GenreError == "genre_error"     \* exception inside the genre block, plex_handler.py:298-334
ThumbError == "thumb_error"     \* exception reading artist.thumb, plex_handler.py:222
PosterError == "poster_error"   \* exception in a poster block, caught at plex_handler.py:353 or 370

Min(x, y) == IF x < y THEN x ELSE y

VARIABLES
    run,               \* which execution of main() this is
    idx,               \* how many artists the for loop of main.py:51 has taken
    pc,                \* the statement main() is at
    ledger,            \* rows of table processed_artists
    spotify_data,      \* main.py:76, the dict returned by search_artist
    success,           \* main.py:87, the value returned by update_artist_metadata
    exc,               \* the exception caught at main.py:108, by its text
    changes_needed,    \* plex_handler.py:293, as it stands when the call returns
    changes_made,      \* plex_handler.py:294, as it stands when the call returns
    step_err,          \* the exceptions update_artist_metadata caught and logged
    last_request_time, \* SpotifyHandler.last_request_time: <<>> is None, else <<age>>
    retry_after,       \* Retry-After of the rate-limit signal being waited for
    signal_age,        \* time since that signal was received
    depth,             \* calls of itself the current search_artist or
                       \* get_artist_details is nested in: its retries so far
    pbar_n,            \* tqdm's counter
    read_failed,       \* the ledger read of this iteration hit sqlite3.Error
    call,              \* a function applied on its own: its name, arguments, value
    request_gap,       \* time between the last two catalog requests, up to the
                       \* floor; the floor while there is no earlier request
    tasks,             \* process_artist_batch: the calls of process_single_artist
                       \* submitted to the executor, in order
    thread_lock,       \* PlexHandler.thread_lock: the task that holds it, or NoTask
    searched           \* search_artist calls made for each artist in the batch

vars == <<run, idx, pc, ledger, spotify_data, success,
          exc, changes_needed, changes_made, step_err, last_request_time,
          retry_after, signal_age, depth, pbar_n, read_failed, call,
          request_gap, tasks, thread_lock, searched>>

matcherVars == <<last_request_time, retry_after, signal_age, depth, request_gap>>
locals == <<spotify_data, success, exc, changes_needed, changes_made, step_err,
            read_failed>>

NoneData == [spotify_id |-> NoneId, genres |-> {}, images |-> FALSE]
NoCall == [fn |-> "None"]
NoTask == 0
batchVars == <<tasks, thread_lock, searched>>
\* what main() does not touch
aside == <<call, tasks, thread_lock, searched>>
\* what process_artist_batch does not touch
mainVars == <<run, idx, pc, spotify_data, success, exc, changes_needed, changes_made,
              step_err, retry_after, signal_age, depth, pbar_n, read_failed, call>>

\* ---------------------------------------------------------------- ledger
\* database_handler.py:33-46; storage_error is sqlite3.Error raised by the query
is_artist_processed(rows, artist_id, storage_error) ==
    IF storage_error THEN FALSE
    ELSE \E r \in rows : r.artist_id = artist_id

\* the mutant: a plain INSERT that leaves the old row in place
mark_insert_only(rows, artist_id, spotify_id, ok, error_message, date) ==
    rows \cup {[artist_id |-> artist_id, artist_name |-> Title(artist_id),
                spotify_id |-> spotify_id, processed_date |-> date,
                success |-> ok, error_message |-> error_message]}

\* database_handler.py:48-66, INSERT OR REPLACE keyed by artist_id
mark_artist_processed(rows, artist_id, spotify_id, ok, error_message, date) ==
    {r \in rows : r.artist_id # artist_id}
        \cup {[artist_id |-> artist_id, artist_name |-> Title(artist_id),
               spotify_id |-> spotify_id, processed_date |-> date,
               success |-> ok, error_message |-> error_message]}

\* ------------------------------------------------------------ reconciler
\* the mutant: the decision the dead code of needs_processing computes
needs_processing_by_data(has_valid_thumb, existing_genres) ==
    ~has_valid_thumb \/ existing_genres = {}

\* plex_handler.py:273-283
needs_processing(has_valid_thumb, existing_genres) == TRUE

\* ------------------------------------------------------------------ time
\* time passing by t units: every age grows, up to what the code can tell apart
AgedRequest(t) ==
    IF last_request_time = <<>> THEN <<>>
    ELSE <<Min(last_request_time[1] + t, rate_limit_delay)>>

\* the age of the rate-limit signal the current call is retrying after, if any
AgedSignal(t) ==
    IF depth = 0 THEN 0
    ELSE Min(signal_age + t, MaxRetryAfter * cooldown_step)

\* What the library answers when the program reads an artist: its genres, and
\* whether its installed thumb passes _verify_thumb. The library is a server of its
\* own; the program keeps no copy of what it holds.
LibraryGenres == {{}, {"rock"}}

Init ==
    /\ run = 1
    /\ idx = 0
    /\ pc = "for"
    /\ ledger = {}
    /\ spotify_data = NoneData
    /\ success = FALSE
    /\ exc = NoError
    /\ changes_needed = FALSE
    /\ changes_made = FALSE
    /\ step_err = {}
    /\ last_request_time = <<>>
    /\ retry_after = 0
    /\ signal_age = 0
    /\ depth = 0
    /\ pbar_n = 0
    /\ read_failed = FALSE
    /\ call = NoCall
    /\ request_gap = rate_limit_delay
    /\ tasks = <<>>
    /\ thread_lock = NoTask
    /\ searched = [a \in Artists |-> 0]

\* ------------------------------------------------------------ reconciler
\* the mutant: success only when a change was applied
final_status_made(needed, made) == made

\* plex_handler.py:375-384
final_status(needed, made) ==
    IF ~needed THEN TRUE
    ELSE IF made THEN TRUE
    ELSE FALSE

\* ---- artwork validator and uploader
\* An image file as PIL sees it: Image.open identifies it from its header (opens,
\* format, width, height) and does not decode the pixel data; loads says whether
\* decoding the data (load, convert, save) succeeds.
NoImage == [opens |-> FALSE, loads |-> FALSE, format |-> "None", width |-> 0, height |-> 0]
Sides == {min_poster_side - 1, min_poster_side}
ImageFiles ==
    {f \in [opens : BOOLEAN, loads : BOOLEAN, format : {"JPEG", "PNG", "GIF"},
            width : Sides, height : Sides] : f.loads => f.opens}

\* plex_handler.py:109-146
validate_image(image_data) ==
    IF ~image_data.opens THEN NoImage                        \* 116, then 144-146
    ELSE IF image_data.width < min_poster_side
              \/ image_data.height < min_poster_side THEN NoImage     \* 124-126
    ELSE IF image_data.format \notin {"JPEG", "PNG"}                  \* 129-133
    THEN IF image_data.loads THEN [image_data EXCEPT !.format = "JPEG"] ELSE NoImage
    ELSE IF image_data.format = "PNG"                                 \* 136-140
    THEN IF image_data.loads THEN [image_data EXCEPT !.format = "JPEG"] ELSE NoImage
    ELSE image_data                                                   \* 142

\* What the network and the library do during one _upload_poster call:
\*   fetch      requests.get(image_url) answers with a body (155-156)
\*   image      the body
\*   direct, multipart   the library accepts the raw post (176-181), the multipart
\*              post (183-187)
\*   shown      after refresh and reload the artist has a thumb that can be read
\*              (193-214)
PosterCandidates ==
    [fetch : BOOLEAN, image : ImageFiles, direct : BOOLEAN, multipart : BOOLEAN,
     shown : BOOLEAN]

\* plex_handler.py:148-218: the value returned, and what the call did on the way.
\* No exception leaves it (216-218).
upload_poster(c) ==
    LET image_data == IF c.fetch THEN validate_image(c.image) ELSE NoImage
        posted == image_data # NoImage /\ (c.direct \/ c.multipart)
    IN  [ret |-> posted /\ c.shown,
         raised |-> FALSE,
         fetched |-> c.fetch,
         loads |-> c.fetch /\ c.image.loads,
         rejected |-> c.fetch /\ image_data = NoImage,
         posted |-> posted]

\* a poster block of update_artist_metadata that raises before or between its
\* _upload_poster calls: max() over images without sizes, artist.albums(), ...
BlockRaised ==
    [ret |-> FALSE, raised |-> TRUE, fetched |-> FALSE, loads |-> FALSE,
     rejected |-> FALSE, posted |-> FALSE]

PosterOutcomes == {upload_poster(c) : c \in PosterCandidates} \cup {BlockRaised}

\* ---- the catalog's images, as spotify_data['images'] lists them: url stands for
\* the place in the list, which is what tells two images of one size apart
ImageSizes == {<<100, 100>>, <<300, 200>>, <<250, 250>>, <<200, 300>>}
ImageLists ==
    UNION {{[i \in 1..n |-> [url |-> i, width |-> sz[i][1], height |-> sz[i][2]]] :
               sz \in [1..n -> ImageSizes]} : n \in 1..MaxImages}

area(x) == x.width * x.height       \* plex_handler.py:345, the key of max()

\* the mutant: a scan that lets an equal area replace the one it holds
RECURSIVE max_last(_, _)
max_last(best, rest) ==
    IF rest = <<>> THEN best
    ELSE max_last(IF area(Head(rest)) >= area(best) THEN Head(rest) ELSE best,
                  Tail(rest))

\* max(iterable, key=...): one scan that keeps the first item seen until an item
\* with a strictly greater key comes
RECURSIVE max(_, _)
max(best, rest) ==
    IF rest = <<>> THEN best
    ELSE max(IF area(Head(rest)) > area(best) THEN Head(rest) ELSE best,
             Tail(rest))

\* plex_handler.py:345
largest_image(images) == max(Head(images), Tail(images))

\* ---- _verify_thumb
\* The artwork an artist has: thumb is what reading artist.thumb gives ("set",
\* "none", or "raises" when the library client fails to load the attribute),
\* fetch is whether requests.get and raise_for_status pass, content_size the
\* length of the body, and image what PIL makes of the body (opens: Image.open
\* identifies it; verifies: image.verify() passes).
ThumbSides == {min_thumb_side - 1, min_thumb_side}
ThumbFiles ==
    {f \in [opens : BOOLEAN, verifies : BOOLEAN, format : {"JPEG", "PNG", "GIF"},
            width : ThumbSides, height : ThumbSides] : f.verifies => f.opens}
InstalledThumbs ==
    [thumb : {"set", "none", "raises"}, fetch : BOOLEAN,
     content_size : {min_thumb_bytes - 1, min_thumb_bytes}, image : ThumbFiles]

\* plex_handler.py:220-271: the value returned, or an exception leaving the call
verify_thumb(t) ==
    IF t.thumb = "raises" THEN [ret |-> FALSE, raised |-> TRUE]              \* 222
    ELSE IF t.thumb = "none" THEN [ret |-> FALSE, raised |-> FALSE]          \* 222-224
    ELSE IF ~t.fetch THEN [ret |-> FALSE, raised |-> FALSE]                  \* 231-232, 269
    ELSE IF t.content_size < min_thumb_bytes
         THEN [ret |-> FALSE, raised |-> FALSE]                              \* 240-242
    ELSE IF ~t.image.opens THEN [ret |-> FALSE, raised |-> FALSE]            \* 246, 265
    ELSE IF t.image.format \notin {"JPEG", "PNG"}
         THEN [ret |-> FALSE, raised |-> FALSE]                              \* 250-252
    ELSE IF t.image.width < min_thumb_side \/ t.image.height < min_thumb_side
         THEN [ret |-> FALSE, raised |-> FALSE]                              \* 256-258
    ELSE IF ~t.image.verifies THEN [ret |-> FALSE, raised |-> FALSE]         \* 261, 265
    ELSE [ret |-> TRUE, raised |-> FALSE]                                    \* 263

\* ---- the poster blocks of update_artist_metadata, album by album
\* An album as the library gives it: id stands for its place in artist.albums(),
\* year is album.year (NoYear: None), thumb says whether album.thumb is set, and
\* upload is what _upload_poster returns for its thumbUrl.
NoYear == 9999
AlbumYears == {NoYear, 1999, 2005}
AlbumLists ==
    UNION {{[i \in 1..n |-> [id |-> i, year |-> al[i][1], thumb |-> al[i][2],
                             upload |-> al[i][3]]] :
               al \in [1..n -> AlbumYears \X BOOLEAN \X BOOLEAN]} : n \in 0..MaxAlbums}

\* the mutant: the year as it is, None above every year
year_as_is(album) == album.year

\* plex_handler.py:362, key=lambda x: x.year if x.year else 0
year_key(album) == IF album.year = NoYear THEN 0 ELSE album.year

\* sorted(albums, key=..., reverse=True): descending, and albums of one key in the
\* order they came in
RECURSIVE sorted_albums(_)
sorted_albums(albums) ==
    IF albums = <<>> THEN <<>>
    ELSE LET i == CHOOSE i \in 1..Len(albums) :
                     /\ \A j \in 1..Len(albums) : year_key(albums[j]) <= year_key(albums[i])
                     /\ \A j \in 1..(i - 1) : year_key(albums[j]) < year_key(albums[i])
         IN  <<albums[i]>> \o sorted_albums(SubSeq(albums, 1, i - 1)
                                             \o SubSeq(albums, i + 1, Len(albums)))

\* plex_handler.py:363-369: the uploads the loop over the sorted albums makes
RECURSIVE album_attempts(_)
album_attempts(sorted) ==
    IF sorted = <<>> THEN <<>>
    ELSE IF ~Head(sorted).thumb THEN album_attempts(Tail(sorted))          \* 364
    ELSE LET attempt == [source |-> "album", id |-> Head(sorted).id,
                         year |-> Head(sorted).year, ok |-> Head(sorted).upload]
         IN  IF Head(sorted).upload THEN <<attempt>>                       \* 366-369
             ELSE <<attempt>> \o album_attempts(Tail(sorted))

\* plex_handler.py:337-371: the _upload_poster calls made, in order. spotify is how
\* the block of the catalog's image ends: "ok" and "failed" are what _upload_poster
\* returns, "raised" is an exception before the call (345-346).
poster_attempts(valid_thumb, images, spotify, albums) ==
    IF valid_thumb THEN <<>>
    ELSE LET first == IF images /\ spotify # "raised"
                      THEN <<[source |-> "spotify", id |-> 0, year |-> NoYear,
                              ok |-> spotify = "ok"]>>
                      ELSE <<>>
             poster_updated == images /\ spotify = "ok"
         IN  IF poster_updated THEN first
             ELSE first \o album_attempts(sorted_albums(albums))

\* the mutant: the new genres replace the installed ones
union_new(existing_genres, spotify_genres, album_genres) ==
    spotify_genres \cup album_genres

\* plex_handler.py:313, existing_genres.union(spotify_genres, album_genres)
union(existing_genres, spotify_genres, album_genres) ==
    existing_genres \cup spotify_genres \cup album_genres

\* What the library and the network do during one update_artist_metadata call:
\*   genre_fault   where the genre block raises: "read" (artist.genres, artist.albums(),
\*                 album.genres), "write" (addGenre), "reload" (artist.reload), "none"
\*   album_genres  the union of the genres of the artist's albums
\*   thumb_fault   reading artist.thumb raises (plex_handler.py:222, outside the try)
\*   spotify_upload, album_upload   how the poster block of the catalog's image (343-354)
\*                 and the block of the album art (357-371) end
AlbumGenres == {{}, {"pop"}}

\* the mutant: a change is needed only for an artist that has no genre
genres_differ_when_empty(existing_genres, all_genres) ==
    existing_genres = {} /\ all_genres # {}

\* the mutant: a change is needed whatever the sets are
genres_differ_always(existing_genres, all_genres) == TRUE

\* plex_handler.py:316-323: whether the genre block sets changes_needed
genres_differ(existing_genres, all_genres) ==
    \/ (existing_genres = {} /\ all_genres # {})
    \/ all_genres # existing_genres

UpdateEnv ==
    [genre_fault : {"none", "read", "write", "reload"},
     album_genres : AlbumGenres,
     thumb_fault : BOOLEAN,
     spotify_upload : PosterOutcomes,
     album_upload : PosterOutcomes]

\* plex_handler.py:286-388: the value returned, the two flags as the call leaves
\* them, the exceptions it caught and logged, and what it did to the library
\* (genre_needed: changes_needed as the genre block leaves it; addGenre: the
\* argument of each artist.addGenre call made, whether or not it raised;
\* genres: the genres the artist has afterwards; poster: whose image was posted
\* last, "kept" when none was)
update_artist_metadata(existing_genres, valid_thumb, data, e) ==
    LET spotify_genres == data.genres
        all_genres == union(existing_genres, spotify_genres, e.album_genres)
        genre_read == e.genre_fault # "read"
        genre_needed == genre_read /\ genres_differ(existing_genres, all_genres)
        genres_to_set == IF all_genres # {} THEN all_genres ELSE {"Unknown"}
        genre_written == genre_needed /\ e.genre_fault \in {"none", "reload"}
        genre_made == genre_needed /\ e.genre_fault = "none"
        genre_raised == \/ e.genre_fault = "read"
                        \/ genre_needed /\ e.genre_fault \in {"write", "reload"}
        poster_needed == ~e.thumb_fault /\ ~valid_thumb
        spotify_tried == poster_needed /\ data.images
        spotify_poster == spotify_tried /\ e.spotify_upload.ret
        album_tried == poster_needed /\ ~spotify_poster
        album_poster == album_tried /\ e.album_upload.ret
        poster_raised == \/ spotify_tried /\ e.spotify_upload.raised
                         \/ album_tried /\ e.album_upload.raised
        needed == genre_needed \/ poster_needed
        made == genre_made \/ spotify_poster \/ album_poster
    IN  [ret |-> IF e.thumb_fault THEN FALSE
                 ELSE final_status(needed, made),
         all_genres |-> IF genre_read THEN all_genres ELSE {},
         genre_needed |-> genre_needed,
         addGenre |-> IF genre_needed THEN <<genres_to_set>> ELSE <<>>,
         genres |-> IF genre_written THEN existing_genres \cup genres_to_set
                    ELSE existing_genres,
         poster |-> IF album_tried /\ e.album_upload.posted THEN "album"
                    ELSE IF spotify_tried /\ e.spotify_upload.posted THEN "spotify"
                    ELSE "kept",
         spotify_tried |-> spotify_tried,
         album_tried |-> album_tried,
         changes_needed |-> needed,
         changes_made |-> made,
         step_err |-> (IF genre_raised THEN {GenreError} ELSE {})
                        \cup (IF e.thumb_fault THEN {ThumbError} ELSE {})
                        \cup (IF poster_raised THEN {PosterError} ELSE {})]

\* What the catalog answers to one request
CatalogGenres == {{}, {"pop"}}
CatalogMatches == [spotify_id : {NoneId}, genres : CatalogGenres, images : BOOLEAN]

\* what main() gets back from update_artist_metadata(artist, data), paired with
\* data, over everything the library can hold and do: the value returned, the two
\* flags as the call leaves them, and the exceptions it caught and logged
UpdateOutcomes ==
    {<<m, [ret |-> update_artist_metadata(g, t, m, e).ret,
           changes_needed |-> update_artist_metadata(g, t, m, e).changes_needed,
           changes_made |-> update_artist_metadata(g, t, m, e).changes_made,
           step_err |-> update_artist_metadata(g, t, m, e).step_err]>> :
        <<m, g, t, e>> \in CatalogMatches \X LibraryGenres \X BOOLEAN \X UpdateEnv}

UpdateReturns(data) ==
    {o[2] : o \in {u \in UpdateOutcomes : u[1] = [data EXCEPT !.spotify_id = NoneId]}}

\* --------------------------------------------------------------- matcher
\* spotify_handler.py:35-48: one time.sleep(1) for each of range(retry_after, 0, -1)
handle_rate_limit_short(d) == IF d > 1 THEN (d - 1) * cooldown_step ELSE 0

handle_rate_limit(d) == IF d > 0 THEN d * cooldown_step ELSE 0

\* the mutant: an interpreter that nests calls without end
call_always_fits(d) == TRUE

\* spotify_handler.py:82 and 104: the interpreter makes the call only while the
\* stack of nested calls is below its limit, and raises RecursionError otherwise
call_fits(d) == d + 1 < RecursionLimit

\* the mutant: a floor kept for each operation apart, so that a request that
\* follows one of the other operation does not wait
rate_limit_sleep_apart(last) == 0

\* spotify_handler.py:50-55: how long _rate_limit sleeps
rate_limit_sleep(last) ==
    IF last # <<>> /\ last[1] < rate_limit_delay
    THEN rate_limit_delay - last[1]
    ELSE 0

\* ------------------------------------------------------------- main loop
artist == idx                   \* artists[idx - 1].ratingKey, the loop variable
now == run                      \* datetime.now() of a ledger write: later in a later run

\* no frame of main()'s loop body, or of what it calls, holds a value
NoLocals ==
    /\ spotify_data' = NoneData
    /\ success' = FALSE
    /\ changes_needed' = FALSE
    /\ changes_made' = FALSE
    /\ step_err' = {}
    /\ read_failed' = FALSE

\* main.py:117-118 and back to 51: the finally, then the loop header
EndIteration(n) ==
    /\ pbar_n' = pbar_n + n
    /\ pc' = "for"
    /\ UNCHANGED idx

\* an exception e reaches main.py:108
Raise(e) ==
    /\ exc' = e
    /\ pc' = "except"
    /\ UNCHANGED <<idx, ledger, pbar_n>>

\* main.py:51-54 and 120-125: the next artist, or the end of the scan. What the
\* last iteration left in the locals is assigned before it is read again, or goes
\* with the frame of main().
ForLoop ==
    /\ pc = "for"
    /\ IF idx < NumArtists
       THEN /\ idx' = idx + 1
            /\ pc' = "try"
       ELSE /\ pc' = "done"       \* main() returns
            /\ UNCHANGED idx
    /\ NoLocals
    /\ exc' = NoError
    /\ UNCHANGED <<run, ledger, pbar_n, matcherVars>>

\* main.py:56-73: needs_processing, the ledger check, and the branch on both
CheckArtist ==
    /\ pc = "try"
    /\ \E lib_fault \in BOOLEAN, read_error \in BOOLEAN, write_error \in BOOLEAN,
          existing_genres \in LibraryGenres, has_valid_thumb \in BOOLEAN :
        IF lib_fault
        THEN /\ Raise(PlexError)       \* artist.thumb or artist.genres raises at 58
             /\ UNCHANGED <<spotify_data, success, changes_needed, changes_made,
                            step_err, read_failed>>
        ELSE LET needs == needs_processing(has_valid_thumb, existing_genres)
                 processed == is_artist_processed(ledger, artist, read_error)
             IN  IF processed
                 THEN /\ EndIteration(2)    \* main.py:61, then the finally of 118
                      /\ UNCHANGED <<ledger, locals>>
                 ELSE IF ~needs
                 THEN IF write_error
                      THEN /\ Raise(DbError)
                           /\ read_failed' = read_error
                           /\ UNCHANGED <<spotify_data, success, changes_needed,
                                          changes_made, step_err>>
                      ELSE /\ ledger' = mark_artist_processed(
                                  ledger, artist, NoneId, TRUE, NoError, now)
                           /\ read_failed' = read_error
                           /\ EndIteration(2)    \* main.py:72, then the finally
                           /\ UNCHANGED <<spotify_data, success, exc, changes_needed,
                                          changes_made, step_err>>
                 ELSE /\ pc' = "search"
                      /\ read_failed' = read_error
                      /\ UNCHANGED <<idx, ledger, pbar_n, spotify_data, success, exc,
                                     changes_needed, changes_made, step_err>>
    /\ UNCHANGED <<run, matcherVars>>

\* spotify_handler.py:50-56, called at 60 and 88: sleep up to the floor, then stamp
RateLimit(from, to) ==
    /\ pc = from
    /\ LET t == rate_limit_sleep(last_request_time)
       IN  /\ signal_age' = AgedSignal(t)
           /\ request_gap' = IF last_request_time = <<>> THEN rate_limit_delay
                             ELSE Min(last_request_time[1] + t, rate_limit_delay)
           /\ last_request_time' = <<0>>
    /\ pc' = to
    /\ UNCHANGED <<run, idx, ledger, pbar_n, retry_after, depth, locals>>

SearchRateLimit == RateLimit("search", "search_request")
DetailsRateLimit == RateLimit("details", "details_request")

\* the logical call ends: what was kept for its retries is dropped
CallReturns ==
    /\ retry_after' = 0
    /\ signal_age' = 0
    /\ depth' = 0
    /\ UNCHANGED <<last_request_time, request_gap>>

\* spotify_handler.py:78-82 and 100-104: a rate-limit signal with Retry-After = d,
\* handle_rate_limit(d), then the call of itself that search_artist and
\* get_artist_details return. When the interpreter refuses the nested call, its
\* RecursionError either comes up inside the try of the innermost call, which logs
\* it and returns None (83-84, 105-106), or outside it (60-61, 88-89) and goes up
\* to main().
RateLimited(retry, none) ==
    \E d \in 1..MaxRetryAfter :
        LET t == handle_rate_limit(d)
        IN  /\ last_request_time' = AgedRequest(t)
            /\ UNCHANGED request_gap
            /\ IF call_fits(depth)
               THEN /\ retry_after' = d
                    /\ signal_age' = Min(t, MaxRetryAfter * cooldown_step)
                    /\ depth' = Min(depth + 1, RecursionLimit)
                    /\ pc' = retry
                    /\ UNCHANGED <<idx, ledger, pbar_n, locals>>
               ELSE /\ retry_after' = 0
                    /\ signal_age' = 0
                    /\ depth' = 0
                    /\ \/ /\ pc' = none
                          /\ UNCHANGED <<idx, ledger, pbar_n, locals>>
                       \/ /\ Raise(RecursionError)
                          /\ UNCHANGED <<spotify_data, success, changes_needed,
                                         changes_made, step_err, read_failed>>

\* spotify_handler.py:62-84: spotify.search and what search_artist makes of the answer
SearchRequest ==
    /\ pc = "search_request"
    /\ \/ \E m \in CatalogMatches :        \* items[0], returned at 68-74
            /\ spotify_data' = [m EXCEPT !.spotify_id = SpotifyId(artist)]
            /\ pc' = "details"
            /\ CallReturns
            /\ UNCHANGED <<idx, ledger, pbar_n, success, exc, changes_needed,
                           changes_made, step_err, read_failed>>
       \/ /\ pc' = "mark_not_found"        \* no items (76), or another error (83-84)
          /\ CallReturns
          /\ UNCHANGED <<idx, ledger, pbar_n, locals>>
       \/ RateLimited("search", "mark_not_found")    \* 78-82
       \/ /\ Raise(RetryAfterError)        \* 79: int() of a Retry-After that is a date
          /\ CallReturns
          /\ UNCHANGED <<spotify_data, success, changes_needed, changes_made,
                         step_err, read_failed>>
    /\ UNCHANGED run

\* spotify_handler.py:90-106: spotify.artist and what get_artist_details makes of it;
\* main.py:83-84 merges the details into spotify_data
DetailsRequest ==
    /\ pc = "details_request"
    /\ \/ \E m \in CatalogMatches :        \* 93-98, then spotify_data.update(details)
            /\ spotify_data' = [spotify_data EXCEPT !.genres = m.genres,
                                                    !.images = m.images]
            /\ pc' = "update"
            /\ CallReturns
            /\ UNCHANGED <<idx, ledger, pbar_n, success, exc, changes_needed,
                           changes_made, step_err, read_failed>>
       \/ /\ pc' = "update"                \* another error (105-106): details is None
          /\ CallReturns
          /\ UNCHANGED <<idx, ledger, pbar_n, locals>>
       \/ RateLimited("details", "update")           \* 100-104
       \/ /\ Raise(RetryAfterError)        \* 101
          /\ CallReturns
          /\ UNCHANGED <<spotify_data, success, changes_needed, changes_made,
                         step_err, read_failed>>
    /\ UNCHANGED run

\* main.py:87-88
UpdateArtistMetadata ==
    /\ pc = "update"
    /\ \E r \in UpdateReturns(spotify_data) :
        /\ success' = r.ret
        /\ changes_needed' = r.changes_needed
        /\ changes_made' = r.changes_made
        /\ step_err' = r.step_err
    /\ pc' = "mark_matched"
    /\ UNCHANGED <<run, idx, ledger, pbar_n, spotify_data, exc, read_failed>>
    /\ UNCHANGED matcherVars

\* a ledger write of the try block, then main.py:106 and the finally of 117-118
MarkThenSleep(spotify_id, ok, error_message) ==
    \E write_error \in BOOLEAN :
        IF write_error
        THEN /\ Raise(DbError)
             /\ UNCHANGED <<spotify_data, success, changes_needed, changes_made,
                            step_err, read_failed, last_request_time>>
        ELSE /\ ledger' = mark_artist_processed(
                    ledger, artist, spotify_id, ok, error_message, now)
             /\ last_request_time' = AgedRequest(courtesy_sleep)
             /\ EndIteration(1)
             /\ UNCHANGED locals

\* main.py:90-95
MarkMatched ==
    /\ pc = "mark_matched"
    /\ MarkThenSleep(spotify_data.spotify_id, success, NoError)
    /\ UNCHANGED <<run, retry_after, signal_age, depth, request_gap>>

\* main.py:96-103
MarkNotFound ==
    /\ pc = "mark_not_found"
    /\ MarkThenSleep(NoneId, FALSE, NotFoundMsg)
    /\ UNCHANGED <<run, retry_after, signal_age, depth, request_gap>>

\* main.py:108-118, and 127-129 when the handler's own ledger write raises
Except ==
    /\ pc = "except"
    /\ \E write_error \in BOOLEAN :
        IF write_error
        THEN /\ pbar_n' = pbar_n + 1
             /\ pc' = "aborted"
             /\ exc' = DbError     \* what main() re-raises at 129
             /\ NoLocals
             /\ UNCHANGED <<idx, ledger>>
        ELSE /\ ledger' = mark_artist_processed(
                    ledger, artist, NoneId, FALSE, exc, now)
             /\ EndIteration(1)
             /\ UNCHANGED locals
    /\ UNCHANGED <<run, matcherVars>>

\* main() has returned and is started again: new handlers, the same library and
\* ledger file
NextRun ==
    /\ pc = "done"
    /\ run < MaxRuns
    /\ run' = run + 1
    /\ idx' = 0
    /\ pc' = "for"
    /\ NoLocals
    /\ exc' = NoError
    /\ last_request_time' = <<>>
    /\ request_gap' = rate_limit_delay
    /\ retry_after' = 0
    /\ signal_age' = 0
    /\ depth' = 0
    /\ pbar_n' = 0
    /\ UNCHANGED ledger

Next ==
    \/ ForLoop /\ UNCHANGED aside
    \/ CheckArtist /\ UNCHANGED aside
    \/ SearchRateLimit /\ UNCHANGED aside
    \/ SearchRequest /\ UNCHANGED aside
    \/ DetailsRateLimit /\ UNCHANGED aside
    \/ DetailsRequest /\ UNCHANGED aside
    \/ UpdateArtistMetadata /\ UNCHANGED aside
    \/ MarkMatched /\ UNCHANGED aside
    \/ MarkNotFound /\ UNCHANGED aside
    \/ Except /\ UNCHANGED aside
    \/ NextRun /\ UNCHANGED aside

Spec == Init /\ [][Next]_vars

\* a sequential program: it takes its next step whenever it has one. Nothing is
\* assumed of the answers of the library, the catalog or the storage.
LiveSpec == Spec /\ WF_vars(Next)

\* ------------------------------------------- functions applied on their own
\* update_artist_metadata and the ledger write of main.py:87-95 for one matched
\* artist, with the library's state and what the call does to it spelled out;
\* max() over a list of images; _upload_poster for one candidate. The arguments
\* come from CallInit.
MatchedData == {[m EXCEPT !.spotify_id = SpotifyId(1)] : m \in CatalogMatches}

CallInit ==
    /\ run = 1
    /\ idx = 1
    /\ ledger = {}
    /\ success = FALSE
    /\ exc = NoError
    /\ changes_needed = FALSE
    /\ changes_made = FALSE
    /\ step_err = {}
    /\ last_request_time = <<0>>
    /\ retry_after = 0
    /\ signal_age = 0
    /\ depth = 0
    /\ pbar_n = 0
    /\ read_failed = FALSE
    /\ request_gap = rate_limit_delay
    /\ tasks = <<>>
    /\ thread_lock = NoTask
    /\ searched = [a \in Artists |-> 0]
    /\ \/ /\ pc = "update"
          /\ spotify_data \in MatchedData
          /\ call \in [fn : {"update_artist_metadata"},
                       existing_genres : LibraryGenres, valid_thumb : BOOLEAN]
       \/ /\ pc = "call"
          /\ spotify_data = NoneData
          /\ call \in [fn : {"largest_image"}, images : ImageLists]
       \/ /\ pc = "call"
          /\ spotify_data = NoneData
          /\ call \in [fn : {"upload_poster"}, c : PosterCandidates]
       \/ /\ pc = "call"
          /\ spotify_data = NoneData
          /\ call \in [fn : {"verify_thumb"}, t : InstalledThumbs]
       \/ /\ pc = "call"
          /\ spotify_data = NoneData
          /\ call \in [fn : {"poster_attempts"}, valid_thumb : BOOLEAN,
                       images : BOOLEAN, spotify : {"ok", "failed", "raised"},
                       albums : AlbumLists]

\* main.py:87-88 as UpdateArtistMetadata, keeping what the call was given and did
Reconcile ==
    /\ pc = "update"
    /\ call.fn = "update_artist_metadata"
    /\ \E e \in UpdateEnv :
        LET r == update_artist_metadata(call.existing_genres, call.valid_thumb,
                                        spotify_data, e)
        IN  /\ success' = r.ret
            /\ changes_needed' = r.changes_needed
            /\ changes_made' = r.changes_made
            /\ step_err' = r.step_err
            /\ call' = [fn |-> call.fn, existing_genres |-> call.existing_genres,
                        valid_thumb |-> call.valid_thumb, e |-> e, out |-> r]
    /\ pc' = "mark_matched"
    /\ UNCHANGED <<run, idx, ledger, pbar_n, spotify_data, exc, read_failed>>
    /\ UNCHANGED matcherVars

\* plex_handler.py:345
LargestImage ==
    /\ pc = "call"
    /\ call.fn = "largest_image"
    /\ call' = [fn |-> call.fn, images |-> call.images,
                out |-> largest_image(call.images)]
    /\ pc' = "returned"
    /\ UNCHANGED <<run, idx, ledger, pbar_n, locals, matcherVars>>

\* plex_handler.py:148-218
UploadPoster ==
    /\ pc = "call"
    /\ call.fn = "upload_poster"
    /\ call' = [fn |-> call.fn, c |-> call.c, out |-> upload_poster(call.c)]
    /\ pc' = "returned"
    /\ UNCHANGED <<run, idx, ledger, pbar_n, locals, matcherVars>>

\* plex_handler.py:337-371
PosterAttempts ==
    /\ pc = "call"
    /\ call.fn = "poster_attempts"
    /\ call' = [fn |-> call.fn, valid_thumb |-> call.valid_thumb,
                images |-> call.images, spotify |-> call.spotify,
                albums |-> call.albums,
                out |-> poster_attempts(call.valid_thumb, call.images, call.spotify,
                                        call.albums)]
    /\ pc' = "returned"
    /\ UNCHANGED <<run, idx, ledger, pbar_n, locals, matcherVars>>

\* plex_handler.py:220-271
VerifyThumb ==
    /\ pc = "call"
    /\ call.fn = "verify_thumb"
    /\ call' = [fn |-> call.fn, t |-> call.t, out |-> verify_thumb(call.t)]
    /\ pc' = "returned"
    /\ UNCHANGED <<run, idx, ledger, pbar_n, locals, matcherVars>>

CallNext ==
    \/ Reconcile /\ UNCHANGED batchVars
    \/ MarkMatched /\ UNCHANGED aside
    \/ LargestImage /\ UNCHANGED batchVars
    \/ UploadPoster /\ UNCHANGED batchVars
    \/ PosterAttempts /\ UNCHANGED batchVars
    \/ VerifyThumb /\ UNCHANGED batchVars

CallSpec == CallInit /\ [][CallNext]_vars

\* -------------------------------------------------- process_artist_batch
\* plex_handler.py:19-66. Each task is one call of process_single_artist:
\*   artist   the artist it was submitted with
\*   pc       where it is
\*   sleep    what is left of the time.sleep it is in
\*   depth    calls of itself its search_artist or get_artist_details is nested in
\*   success  what update_artist_metadata returned
\*   exc      the exception caught at 52, by its text
\* The tasks share the handlers: the ledger, last_request_time, thread_lock.
Task(a) ==
    [artist |-> a, pc |-> "queued", sleep |-> 0, depth |-> 0, success |-> FALSE,
     exc |-> NoError]

\* a call that has returned: its frame is gone
Returned(a) == [Task(a) EXCEPT !.pc = "done"]

BatchInit ==
    /\ run = 1
    /\ idx = 0
    /\ pc = "batch"
    /\ ledger = {}
    /\ spotify_data = NoneData
    /\ success = FALSE
    /\ exc = NoError
    /\ changes_needed = FALSE
    /\ changes_made = FALSE
    /\ step_err = {}
    /\ last_request_time = <<>>
    /\ retry_after = 0
    /\ signal_age = 0
    /\ depth = 0
    /\ pbar_n = 0
    /\ read_failed = FALSE
    /\ call = NoCall
    /\ request_gap = rate_limit_delay
    /\ tasks \in {[t \in 1..BatchSize |-> Task(as[t])] : as \in [1..BatchSize -> Artists]}
    /\ thread_lock = NoTask
    /\ searched = [a \in Artists |-> 0]

Tasks == 1..Len(tasks)
Running(t) == tasks[t].pc \notin {"queued", "done", "raised"}

\* the mutant: the with block of 23-25 drawn over the whole of the try
lock_kept(t) == t

\* plex_handler.py:23-25: the lock after the with block of the ledger check
lock_after_check(t) == NoTask

\* the executor gives the next submitted call to a thread, while it has one
StartWorker ==
    \E t \in Tasks :
        /\ tasks[t].pc = "queued"
        /\ \A u \in 1..(t - 1) : tasks[u].pc # "queued"
        /\ Cardinality({u \in Tasks : Running(u)}) < max_workers
        /\ tasks' = [tasks EXCEPT ![t].pc = "check"]
        /\ UNCHANGED <<ledger, last_request_time, request_gap, thread_lock, searched>>
        /\ UNCHANGED mainVars

\* the mutant: a lock that lets every caller in
acquire_any(holder) == TRUE

\* threading.Lock (plex_handler.py:16): acquire returns only while no one holds it
acquire(holder) == holder = NoTask

\* with self.thread_lock: at 23, 35, 44 and 55. A task that holds the lock already
\* waits for itself.
AcquireThreadLock ==
    \E t \in Tasks :
        /\ tasks[t].pc \in {"check", "mark_matched", "mark_not_found", "except"}
        /\ acquire(thread_lock)
        /\ thread_lock' = t
        /\ tasks' = [tasks EXCEPT ![t].pc =
                        CASE tasks[t].pc = "check" -> "checking"
                          [] tasks[t].pc = "mark_matched" -> "marking_matched"
                          [] tasks[t].pc = "mark_not_found" -> "marking_not_found"
                          [] tasks[t].pc = "except" -> "handling"]
        /\ UNCHANGED <<ledger, last_request_time, request_gap, searched>>
        /\ UNCHANGED mainVars

\* plex_handler.py:24-27: the ledger check, the end of the with block, and the
\* call of search_artist when the artist has no entry
WorkerCheck ==
    \E t \in Tasks, read_error \in BOOLEAN :
        /\ tasks[t].pc = "checking"
        /\ thread_lock' = IF thread_lock = t THEN lock_after_check(t) ELSE thread_lock
        /\ IF is_artist_processed(ledger, tasks[t].artist, read_error)
           THEN /\ tasks' = [tasks EXCEPT ![t] = Returned(tasks[t].artist)]  \* return None
                /\ UNCHANGED searched
           ELSE /\ tasks' = [tasks EXCEPT ![t].pc = "search"]
                /\ searched' = [searched EXCEPT ![tasks[t].artist] = Min(@ + 1, BatchSize)]
        /\ UNCHANGED <<ledger, last_request_time, request_gap>>
        /\ UNCHANGED mainVars

\* spotify_handler.py:52-55: _rate_limit reads last_request_time and starts its sleep
WorkerRateLimit ==
    \E t \in Tasks :
        /\ tasks[t].pc \in {"search", "details"}
        /\ tasks[t].sleep = 0
        /\ tasks' = [tasks EXCEPT ![t].sleep = rate_limit_sleep(last_request_time),
                                  ![t].pc = IF tasks[t].pc = "search" THEN "search_sleep"
                                            ELSE "details_sleep"]
        /\ UNCHANGED <<ledger, last_request_time, request_gap, thread_lock, searched>>
        /\ UNCHANGED mainVars

\* one unit of time passes while some task sleeps
Tick ==
    /\ \E t \in Tasks : tasks[t].sleep > 0
    /\ tasks' = [t \in Tasks |->
                    [tasks[t] EXCEPT !.sleep = IF @ > 0 THEN @ - 1 ELSE 0]]
    /\ last_request_time' = AgedRequest(1)
    /\ UNCHANGED <<ledger, request_gap, thread_lock, searched>>
    /\ UNCHANGED mainVars

\* spotify_handler.py:56, then the request of 62 or 91 goes out
WorkerStamp ==
    \E t \in Tasks :
        /\ tasks[t].pc \in {"search_sleep", "details_sleep"}
        /\ tasks[t].sleep = 0
        /\ request_gap' = IF last_request_time = <<>> THEN rate_limit_delay
                          ELSE last_request_time[1]
        /\ last_request_time' = <<0>>
        /\ tasks' = [tasks EXCEPT ![t].pc = IF tasks[t].pc = "search_sleep"
                                            THEN "search_request"
                                            ELSE "details_request"]
        /\ UNCHANGED <<ledger, thread_lock, searched>>
        /\ UNCHANGED mainVars

\* spotify_handler.py:78-82 and 100-104 in a task: as RateLimited
WorkerRateLimited(t, retry, none) ==
    \E d \in 1..MaxRetryAfter :
        IF call_fits(tasks[t].depth)
        THEN tasks' = [tasks EXCEPT ![t].sleep = handle_rate_limit(d),
                                    ![t].depth = Min(@ + 1, RecursionLimit),
                                    ![t].pc = retry]
        ELSE \/ tasks' = [tasks EXCEPT ![t].depth = 0, ![t].pc = none]
             \/ tasks' = [tasks EXCEPT ![t].depth = 0, ![t].pc = "except",
                                       ![t].exc = RecursionError]

\* spotify_handler.py:62-84 in a task, and the branch of plex_handler.py:28
WorkerSearch ==
    \E t \in Tasks :
        /\ tasks[t].pc = "search_request"
        /\ \/ tasks' = [tasks EXCEPT ![t].depth = 0, ![t].pc = "details"]
           \/ tasks' = [tasks EXCEPT ![t].depth = 0, ![t].pc = "mark_not_found"]
           \/ WorkerRateLimited(t, "search", "mark_not_found")
           \/ tasks' = [tasks EXCEPT ![t].depth = 0, ![t].pc = "except",
                                     ![t].exc = RetryAfterError]
        /\ UNCHANGED <<ledger, last_request_time, request_gap, thread_lock, searched>>
        /\ UNCHANGED mainVars

\* spotify_handler.py:90-106 in a task, and plex_handler.py:29-31
WorkerDetails ==
    \E t \in Tasks :
        /\ tasks[t].pc = "details_request"
        /\ \/ tasks' = [tasks EXCEPT ![t].depth = 0, ![t].pc = "update"]
           \/ WorkerRateLimited(t, "details", "update")
           \/ tasks' = [tasks EXCEPT ![t].depth = 0, ![t].pc = "except",
                                     ![t].exc = RetryAfterError]
        /\ UNCHANGED <<ledger, last_request_time, request_gap, thread_lock, searched>>
        /\ UNCHANGED mainVars

\* plex_handler.py:33: update_artist_metadata with what search and details gave
WorkerUpdate ==
    \E t \in Tasks, ret \in {o[2].ret : o \in UpdateOutcomes} :
        /\ tasks[t].pc = "update"
        /\ tasks' = [tasks EXCEPT ![t].success = ret, ![t].pc = "mark_matched"]
        /\ UNCHANGED <<ledger, last_request_time, request_gap, thread_lock, searched>>
        /\ UNCHANGED mainVars

\* plex_handler.py:36-42 and 45-51: the ledger write and the end of its with
\* block, which an exception of the write ends as well
WorkerMark ==
    \E t \in Tasks, write_error \in BOOLEAN :
        /\ tasks[t].pc \in {"marking_matched", "marking_not_found"}
        /\ thread_lock' = IF thread_lock = t THEN NoTask ELSE thread_lock
        /\ IF write_error
           THEN /\ tasks' = [tasks EXCEPT ![t].pc = "except", ![t].exc = DbError]
                /\ UNCHANGED ledger
           ELSE /\ ledger' =
                      IF tasks[t].pc = "marking_matched"
                      THEN mark_artist_processed(ledger, tasks[t].artist,
                               SpotifyId(tasks[t].artist), tasks[t].success, NoError, now)
                      ELSE mark_artist_processed(ledger, tasks[t].artist,
                               NoneId, FALSE, NotFoundMsg, now)
                /\ tasks' = [tasks EXCEPT ![t] = Returned(tasks[t].artist)]
        /\ UNCHANGED <<last_request_time, request_gap, searched>>
        /\ UNCHANGED mainVars

\* plex_handler.py:52-62: the handler's ledger write; its exception leaves the task
WorkerExcept ==
    \E t \in Tasks, write_error \in BOOLEAN :
        /\ tasks[t].pc = "handling"
        /\ thread_lock' = IF thread_lock = t THEN NoTask ELSE thread_lock
        /\ IF write_error
           THEN /\ tasks' = [tasks EXCEPT ![t].pc = "raised", ![t].exc = DbError]
                /\ UNCHANGED ledger
           ELSE /\ ledger' = mark_artist_processed(ledger, tasks[t].artist,
                                 NoneId, FALSE, tasks[t].exc, now)
                /\ tasks' = [tasks EXCEPT ![t] = Returned(tasks[t].artist)]
        /\ UNCHANGED <<last_request_time, request_gap, searched>>
        /\ UNCHANGED mainVars

BatchNext ==
    \/ StartWorker
    \/ AcquireThreadLock
    \/ WorkerCheck
    \/ WorkerRateLimit
    \/ Tick
    \/ WorkerStamp
    \/ WorkerSearch
    \/ WorkerDetails
    \/ WorkerUpdate
    \/ WorkerMark
    \/ WorkerExcept

BatchSpec == BatchInit /\ [][BatchNext]_vars

\* ------------------------------------------ the two modes, side by side
\* Collaborators that answer an artist in one way whenever they are asked: a
\* ledger file that is read and written without error, a library that either
\* loads the artist or raises on every read of its attributes (lib_fault), a
\* catalog whose search finds the artist, finds nothing, or answers 429 with a
\* Retry-After that is no integer, and whose other answers are never 429; update
\* is what update_artist_metadata returns for an artist the library loads.
Collaborators ==
    [lib_fault : BOOLEAN, search : {"found", "none", "bad_retry_after"},
     update : BOOLEAN]

\* main.py:51-118 for one artist that has no entry, with these collaborators:
\* the success flag, catalog id and error text of the entry written
main_entry(a, e) ==
    IF e.lib_fault                                    \* 58 raises, 108-115
    THEN <<FALSE, NoneId, PlexError>>
    ELSE IF e.search = "bad_retry_after"              \* 76 raises, 108-115
    THEN <<FALSE, NoneId, RetryAfterError>>
    ELSE IF e.search = "none"                         \* 96-103
    THEN <<FALSE, NoneId, NotFoundMsg>>
    ELSE <<e.update, SpotifyId(a), NoError>>          \* 87-95

\* plex_handler.py:33 with these collaborators: a library that raises on
\* artist.thumb takes update_artist_metadata to its outer except (386-388)
batch_update(e) == IF e.lib_fault THEN FALSE ELSE e.update

ModeInit ==
    /\ run = 1
    /\ idx = 0
    /\ pc = "batch"
    /\ ledger = {}
    /\ spotify_data = NoneData
    /\ success = FALSE
    /\ exc = NoError
    /\ changes_needed = FALSE
    /\ changes_made = FALSE
    /\ step_err = {}
    /\ last_request_time = <<>>
    /\ retry_after = 0
    /\ signal_age = 0
    /\ depth = 0
    /\ pbar_n = 0
    /\ read_failed = FALSE
    /\ call \in [fn : {"process_artist_batch"}, env : [Artists -> Collaborators]]
    /\ request_gap = rate_limit_delay
    /\ tasks \in {[t \in 1..BatchSize |-> Task(as[t])] :
                    as \in {f \in [1..BatchSize -> Artists] :
                               \A i, j \in 1..BatchSize : f[i] = f[j] => i = j}}
    /\ thread_lock = NoTask
    /\ searched = [a \in Artists |-> 0]

\* a step of a task in which the collaborators answer as call.env says
Deterministic ==
    \A t \in Tasks :
        LET e == call.env[tasks[t].artist]
            was == tasks[t].pc
            is == tasks'[t].pc
        IN  /\ was = "checking" =>           \* the read does not fail
                  \/ is = "checking"
                  \/ (is = "done") = is_artist_processed(ledger, tasks[t].artist, FALSE)
            /\ was = "search_request" =>
                  \/ is = "search_request"
                  \/ /\ tasks'[t].sleep = 0
                     /\ is = CASE e.search = "found" -> "details"
                               [] e.search = "none" -> "mark_not_found"
                               [] e.search = "bad_retry_after" -> "except"
                     /\ tasks'[t].exc \in {NoError, RetryAfterError}
            /\ was = "details_request" =>
                  \/ is = "details_request"
                  \/ is = "update" /\ tasks'[t].sleep = 0
            /\ was = "update" =>
                  \/ is = "update"
                  \/ tasks'[t].success = batch_update(e)
            /\ was \in {"marking_matched", "marking_not_found", "handling"} =>
                  \/ is = was               \* the write does not fail
                  \/ is = "done"

ModeNext == BatchNext /\ Deterministic

ModeSpec == ModeInit /\ [][ModeNext]_vars

\* ================================================================ claims

\* C1 (as the spec states it): in a second pass over the same artists and the
\* ledger the first pass left, every artist whose ledger read succeeds is skipped:
\* from the check of main.py:58-59 the loop goes straight to the next artist and
\* the ledger stays as it is.
SecondPassSkipsAll ==
    [][(run >= 2 /\ pc = "try")
          => ((pc' = "for" /\ ledger' = ledger) \/ read_failed')]_vars

\* C2: when a pass has finished its scan, the ledger holds exactly one entry for
\* each artist of the set.
NoSilentDrops ==
    pc = "done" =>
        \A a \in Artists : Cardinality({r \in ledger : r.artist_id = a}) = 1

\* a first pass has finished with one artist recorded as updated and another
\* recorded with the text of a collaborator's exception
NoSilentDropsWitness ==
    /\ pc = "done"
    /\ run = 1
    /\ \E r \in ledger : r.success /\ r.spotify_id # NoneId
    /\ \E r \in ledger : r.error_message \in {PlexError, RetryAfterError}

\* C3 (as the spec states it): when an exception of the library or the catalog
\* reaches the handler of main.py:108, the artist gets a ledger entry and the loop
\* goes on to the next artist.
CollaboratorErrorContained ==
    [][(pc = "except" /\ exc \in {PlexError, RetryAfterError})
          => (pc' = "for" /\ \E r \in ledger' : r.artist_id = artist)]_vars

AtMostOneRetry ==
    [][~(/\ depth >= 1
         /\ \/ pc = "search_request" /\ pc' = "search"
            \/ pc = "details_request" /\ pc' = "details")]_vars

\* C6: a request re-issued after a rate-limit signal with Retry-After = d goes out
\* no sooner than d seconds after the signal.
BackoffElapsed ==
    (pc \in {"search_request", "details_request"} /\ depth >= 1)
        => signal_age >= retry_after * cooldown_step

\* a request re-issued after the largest Retry-After, which the floor of
\* _rate_limit alone does not cover
BackoffElapsedWitness ==
    /\ pc \in {"search_request", "details_request"}
    /\ depth >= 1
    /\ retry_after = MaxRetryAfter
    /\ signal_age = retry_after * cooldown_step

\* C7: every run eventually completes its scan of the artists or is aborted by an
\* error re-raised to the caller, whatever the library, the catalog and the storage
\* answer.
RunTerminates == (pc \notin {"done", "aborted"}) ~> (pc \in {"done", "aborted"})

\* a scan has completed in which the catalog throttled one call until the
\* interpreter refused to nest another, and the artist was recorded with that error
RunTerminatesWitness ==
    /\ pc = "done"
    /\ \E r \in ledger : r.processed_date = now /\ r.error_message = RecursionError

\* C8 (as the spec states it): a storage error of mark_artist_processed never
\* aborts the run.
WriteFailureContained == exc = DbError => pc # "aborted"

\* C9 (as the spec states it): an artist that has a ledger entry, read back without
\* error, is not taken past the check of main.py:59: no catalog call, no update,
\* no ledger write, no handler.
RecordedNeverReattempted ==
    (/\ pc \in {"search", "search_request", "details", "details_request", "update",
                "mark_matched", "mark_not_found", "except"}
     /\ \E r \in ledger : r.artist_id = artist)
        => read_failed

\* C10: for an artist without a ledger entry, whatever genres and artwork the
\* library holds for it, the check of main.py:58-66 leads to the catalog search
\* (or to the handler, when the library raised) and writes nothing.
UnconditionalEvaluation ==
    [][(pc = "try" /\ ~\E r \in ledger : r.artist_id = artist)
          => (pc' \in {"search", "except"} /\ ledger' = ledger)]_vars

\* the search is about to be made for an artist that has no entry
UnconditionalEvaluationWitness ==
    /\ pc = "search"
    /\ ~read_failed
    /\ ~\E r \in ledger : r.artist_id = artist

\* C11 (as the spec states it): the entry written when the search found no match
\* has success=false and the error description "Not found in catalog".
NotFoundInCatalogRecorded ==
    [][(pc = "mark_not_found" /\ pc' = "for")
          => \E r \in ledger' : /\ r.artist_id = artist
                                /\ r.success = FALSE
                                /\ r.error_message = "Not found in catalog"]_vars

\* C11 (amended): when the search found no match, update_artist_metadata, the only
\* writer of the library's genres and artwork, has not run for the artist (its
\* frame holds nothing), and the next step is the ledger write of main.py:98-103:
\* unless the storage raises, it leaves an entry with no catalog id, success=false
\* and the error description "Not found on Spotify", and the loop goes on.
NotFoundShortCircuits ==
    /\ [](pc = "mark_not_found" =>
            /\ spotify_data = NoneData
            /\ ~success /\ ~changes_needed /\ ~changes_made /\ step_err = {})
    /\ [][pc = "mark_not_found" =>
            /\ UNCHANGED <<spotify_data, success, changes_needed, changes_made,
                           step_err>>
            /\ \/ pc' = "except" /\ exc' = DbError /\ ledger' = ledger
               \/ /\ pc' = "for"
                  /\ \E r \in ledger' :
                        /\ r.artist_id = artist
                        /\ r.spotify_id = NoneId
                        /\ r.success = FALSE
                        /\ r.error_message = "Not found on Spotify"
                        /\ r.processed_date = now
                        /\ ledger' = {q \in ledger : q.artist_id # artist} \cup {r}]_vars

\* an artist without a match has just been recorded, in a second pass over an
\* entry an earlier pass left
NotFoundShortCircuitsWitness ==
    /\ pc = "for"
    /\ exc = NoError
    /\ run = 2
    /\ read_failed
    /\ spotify_data = NoneData
    /\ \E r \in ledger : /\ r.artist_id = artist
                         /\ r.processed_date = now
                         /\ r.error_message = NotFoundMsg

\* the call of update_artist_metadata that CallSpec follows has returned
Reconciled == call.fn = "update_artist_metadata" /\ pc # "update"

\* C12: in every update_artist_metadata call whose genre block gets as far as
\* combining (plex_handler.py:313), the combined set contains every genre the
\* artist had; and whatever the call does, the genres the artist has afterwards
\* contain every genre it had before.
GenreMergeMonotonic ==
    Reconciled =>
        /\ call.e.genre_fault # "read" => call.existing_genres \subseteq call.out.all_genres
        /\ call.existing_genres \subseteq call.out.genres

\* an artist that had a genre got the catalog's genre added to it, and the entry
\* is written
GenreMergeMonotonicWitness ==
    /\ Reconciled
    /\ pc = "for"
    /\ call.existing_genres = {"rock"}
    /\ spotify_data.genres = {"pop"}
    /\ call.out.all_genres = {"rock", "pop"}
    /\ call.out.genres = {"rock", "pop"}

\* C13 (as the spec states it): the entry of a reconciled artist says success
\* exactly when no change was needed or a needed change was applied: the artist's
\* genres were extended, or an upload was confirmed.
AppliedChangeIsSuccess ==
    (Reconciled /\ pc = "for") =>
        \E r \in ledger :
            /\ r.artist_id = artist
            /\ r.success = (\/ ~call.out.changes_needed
                            \/ call.out.genres # call.existing_genres
                            \/ call.out.changes_made)

\* C16: whenever a search or details request is about to go out, at least
\* rate_limit_delay has passed since the request before it, whichever operation
\* made that one and whether or not this one is a retry after a rate-limit wait.
FloorBetweenRequests ==
    pc \in {"search_request", "details_request"} =>
        /\ request_gap >= rate_limit_delay
        /\ last_request_time = <<0>>

\* the details request that follows the search of the same artist, re-issued after
\* the shortest rate-limit wait
FloorBetweenRequestsWitness ==
    /\ pc = "details_request"
    /\ depth >= 1
    /\ retry_after = 1
    /\ request_gap = rate_limit_delay

\* C17 (as the spec states it): after a ledger read that hit a storage error the
\* artist is taken to the catalog search instead of being skipped, the run is not
\* halted while the artist is processed, and when the iteration ends the artist
\* has an entry written in this pass.
ReadFailureReprocesses ==
    /\ [][(pc = "try" /\ read_failed') => pc' = "search"]_vars
    /\ [][read_failed => pc' # "aborted"]_vars
    /\ []((pc = "for" /\ read_failed) =>
            \E r \in ledger : r.artist_id = artist /\ r.processed_date = now)

\* C18 (as the spec states it): a candidate whose bytes were fetched and fail to
\* decode is rejected by _validate_image and nothing is posted for it; when that
\* holds of every candidate update_artist_metadata tried, the artist keeps the
\* artwork it had, no poster block raised, and the entry is written.
UndecodableRejected ==
    /\ (call.fn = "upload_poster" /\ pc = "returned"
            /\ call.c.fetch /\ ~call.c.image.loads) =>
          /\ validate_image(call.c.image) = NoImage
          /\ call.out.rejected
          /\ ~call.out.posted
          /\ ~call.out.ret
    /\ (/\ Reconciled
        /\ pc = "for"
        /\ call.out.spotify_tried \/ call.out.album_tried
        /\ call.out.spotify_tried =>
              call.e.spotify_upload.fetched /\ ~call.e.spotify_upload.loads
        /\ call.out.album_tried =>
              call.e.album_upload.fetched /\ ~call.e.album_upload.loads) =>
          /\ call.out.poster = "kept"
          /\ PosterError \notin step_err
          /\ \E r \in ledger : r.artist_id = artist /\ r.processed_date = now

\* C19 (as the spec states it): largest_image has the greatest width x height of
\* the list and is the earliest item that has it, and of sizes 100x100, 300x200,
\* 250x250 it is the 300x200.
LargestImageExample ==
    (call.fn = "largest_image" /\ pc = "returned") =>
        /\ \A j \in 1..Len(call.images) :
              call.images[j].width * call.images[j].height
                  <= call.out.width * call.out.height
        /\ call.images = <<[url |-> 1, width |-> 100, height |-> 100],
                           [url |-> 2, width |-> 300, height |-> 200],
                           [url |-> 3, width |-> 250, height |-> 250]>>
              => call.out = [url |-> 2, width |-> 300, height |-> 200]

\* C19 (amended): from a non-empty list of images with sizes, largest_image is an
\* item of the list, no item has a greater width x height, and every item before
\* it in the list has a smaller one; of sizes 100x100, 300x200, 250x250 it is the
\* 250x250, whose area 62500 is the greatest.
LargestImageFirstMax ==
    (call.fn = "largest_image" /\ pc = "returned") =>
        /\ \E i \in 1..Len(call.images) :
              /\ call.out = call.images[i]
              /\ \A j \in 1..Len(call.images) :
                    /\ call.images[j].width * call.images[j].height
                          <= call.out.width * call.out.height
                    /\ j < i => call.images[j].width * call.images[j].height
                                  < call.out.width * call.out.height
        /\ call.images = <<[url |-> 1, width |-> 100, height |-> 100],
                           [url |-> 2, width |-> 300, height |-> 200],
                           [url |-> 3, width |-> 250, height |-> 250]>>
              => call.out = [url |-> 3, width |-> 250, height |-> 250]

\* of three images, the first and the last share the greatest area, and the first
\* is the one selected
LargestImageFirstMaxWitness ==
    /\ call.fn = "largest_image"
    /\ pc = "returned"
    /\ Len(call.images) = 3
    /\ call.images[1].width = 300 /\ call.images[1].height = 200
    /\ call.images[2].width = 100
    /\ call.images[3].width = 200 /\ call.images[3].height = 300
    /\ call.out.url = 1

\* C14 (as the spec states it): in one batch, search_artist is called at most
\* once for each artist id.
OneSearchPerArtist == \A a \in Artists : searched[a] <= 1

\* C15 (as the spec states it): in one batch, every catalog request goes out at
\* least rate_limit_delay after the request before it, whichever tasks made them.
FloorAcrossWorkers == request_gap >= rate_limit_delay

\* C20: a task that is in search_artist, in get_artist_details or in
\* update_artist_metadata, or between them, does not hold thread_lock; the task
\* that holds it is at the ledger check or at one of the ledger writes.
LockOnlyAroundLedger ==
    /\ \A t \in Tasks :
          tasks[t].pc \in {"search", "search_sleep", "search_request", "details",
                           "details_sleep", "details_request", "update"}
              => thread_lock # t
    /\ thread_lock # NoTask =>
          tasks[thread_lock].pc \in {"checking", "marking_matched",
                                     "marking_not_found", "handling"}

\* one task is writing its entry under the lock while the other has a search
\* request out
LockOnlyAroundLedgerWitness ==
    \E t, u \in Tasks :
        /\ thread_lock = t
        /\ tasks[t].pc = "marking_matched"
        /\ tasks[u].pc = "search_request"

\* C21: in one batch at most one task is inside is_artist_processed or
\* mark_artist_processed at a time, and it holds thread_lock; every artist has at
\* most one entry, and each entry is what one of the three mark_artist_processed
\* calls of process_single_artist writes: the catalog id with no error text, or no
\* id, success=false and the not-found text, or no id, success=false and the text
\* of an exception.
LedgerOpsExclusive ==
    /\ Cardinality({t \in Tasks : tasks[t].pc \in {"checking", "marking_matched",
                                   "marking_not_found", "handling"}}) <= 1
    /\ \A t \in Tasks :
          tasks[t].pc \in {"checking", "marking_matched", "marking_not_found",
                           "handling"} => thread_lock = t
    /\ pc = "batch" =>
          /\ \A a \in Artists : Cardinality({r \in ledger : r.artist_id = a}) <= 1
          /\ \A r \in ledger :
                \/ r.spotify_id = SpotifyId(r.artist_id) /\ r.error_message = NoError
                \/ r.spotify_id = NoneId /\ ~r.success /\ r.error_message = NotFoundMsg
                \/ /\ r.spotify_id = NoneId /\ ~r.success
                   /\ r.error_message \in {RetryAfterError, RecursionError, DbError}

\* two tasks for one artist: one has written its entry and returned, the other is
\* writing over it under the lock
LedgerOpsExclusiveWitness ==
    \E t, u \in Tasks :
        /\ t # u
        /\ tasks[t].artist = tasks[u].artist
        /\ tasks[t].pc = "done"
        /\ tasks[u].pc = "marking_not_found"
        /\ thread_lock = u
        /\ \E r \in ledger : r.artist_id = tasks[u].artist /\ r.success

\* C22: of the uploads update_artist_metadata makes for an artist whose thumb is
\* not valid, the catalog's image comes first when there is one; album art is
\* tried only when the catalog's image was not installed; the albums are tried by
\* year descending, an album without a year after every album with one, albums of
\* one year in the library's order, each album with a thumb until one upload
\* succeeds; and no upload follows a successful one.
FallbackOrder ==
    (call.fn = "poster_attempts" /\ pc = "returned" /\ ~call.valid_thumb) =>
        LET a == call.out
            key(x) == IF x.year = NoYear THEN 0 ELSE x.year
            tried == {a[i].id : i \in {k \in 1..Len(a) : a[k].source = "album"}}
            won == \E i \in 1..Len(a) : a[i].ok
        IN  /\ \A i \in 1..Len(a) : a[i].source = "spotify" => i = 1
            /\ (\E i \in 1..Len(a) : a[i].source = "spotify")
                  = (call.images /\ call.spotify # "raised")
            /\ (call.images /\ call.spotify = "ok") => Len(a) = 1
            /\ \A i \in 1..Len(a) : a[i].ok => i = Len(a)
            /\ \A i, j \in 1..Len(a) :
                  (i < j /\ a[i].source = "album") =>
                      /\ a[j].source = "album"
                      /\ key(a[i]) >= key(a[j])
                      /\ key(a[i]) = key(a[j]) => a[i].id < a[j].id
            /\ \A i \in 1..Len(a) :
                  a[i].source = "album" =>
                      /\ call.albums[a[i].id].thumb
                      /\ a[i].year = call.albums[a[i].id].year
                      /\ a[i].ok = call.albums[a[i].id].upload
            /\ ~won => tried = {k \in 1..Len(call.albums) : call.albums[k].thumb}

\* the catalog's image was not installed, the album of the later year was tried
\* and failed, and the album without a year, first in the library's list, was
\* tried last and installed
FallbackOrderWitness ==
    /\ call.fn = "poster_attempts"
    /\ pc = "returned"
    /\ call.spotify = "failed"
    /\ Len(call.out) = 3
    /\ call.out[1].source = "spotify"
    /\ call.out[2].id = 2 /\ call.out[2].year = 2005 /\ ~call.out[2].ok
    /\ call.out[3].id = 1 /\ call.out[3].year = NoYear /\ call.out[3].ok

\* C23: in every update_artist_metadata call whose genre block reads the artist's
\* genres and albums, changes_needed is set by the genre block exactly when the
\* artist had no genre and the combined set has one, or the combined set differs
\* from the artist's, the combined set being the artist's genres, the catalog's
\* and every album's; and artist.addGenre is called exactly when the block has set
\* the flag. A genre block that cannot read sets no flag and calls nothing.
GenreFlagRule ==
    Reconciled =>
        LET existing == call.existing_genres
            combined == existing \cup spotify_data.genres \cup call.e.album_genres
            flag == \/ (existing = {} /\ combined # {})
                    \/ combined # existing
        IN  /\ call.e.genre_fault # "read" =>
                  /\ call.out.all_genres = combined
                  /\ call.out.genre_needed = flag
            /\ call.e.genre_fault = "read" => ~call.out.genre_needed
            /\ (Len(call.out.addGenre) = 1) = call.out.genre_needed
            /\ Len(call.out.addGenre) <= 1

\* an artist that has a genre, a catalog with another one: the flag is set and
\* the write made
GenreFlagRuleWitness ==
    /\ Reconciled
    /\ call.existing_genres = {"rock"}
    /\ spotify_data.genres = {"pop"}
    /\ call.e.album_genres = {}
    /\ call.out.genre_needed
    /\ call.out.addGenre = <<{"rock", "pop"}>>

\* C25: whenever update_artist_metadata calls artist.addGenre, the combined set
\* has a genre in it and is the value passed: the placeholder "Unknown" is never
\* written to the library.
PlaceholderNeverWritten ==
    Reconciled =>
        /\ \A i \in 1..Len(call.out.addGenre) :
              /\ call.out.all_genres # {}
              /\ call.out.addGenre[i] = call.out.all_genres
              /\ call.out.addGenre[i] # {"Unknown"}
        /\ "Unknown" \notin call.out.genres

\* an artist without a genre, whose only genre comes from its albums, gets it
PlaceholderNeverWrittenWitness ==
    /\ Reconciled
    /\ call.existing_genres = {}
    /\ spotify_data.genres = {}
    /\ call.e.album_genres = {"pop"}
    /\ call.e.genre_fault = "none"
    /\ call.out.addGenre = <<{"pop"}>>
    /\ call.out.genres = {"pop"}

\* C24 (as the spec states it): _verify_thumb returns True exactly when the
\* artist has artwork, the bytes are fetched, the body has at least 1000 bytes,
\* the bytes decode as an image, and both sides are at least 100 px; in every
\* other case it returns False, and it never raises.
VerifyInstalledRule ==
    (call.fn = "verify_thumb" /\ pc = "returned") =>
        /\ ~call.out.raised
        /\ call.out.ret = (/\ call.t.thumb = "set"
                           /\ call.t.fetch
                           /\ call.t.content_size >= 1000
                           /\ call.t.image.opens /\ call.t.image.verifies
                           /\ call.t.image.width >= 100
                           /\ call.t.image.height >= 100)

\* C26 (as the spec states it): a search that ends in an error other than a
\* rate limit is recorded as a search without results is, success=false with the
\* not-found message and no catalog id; and an artist that has such an entry is
\* skipped in every later run: it is taken neither to the catalog nor to the
\* handler, and its entry stays as it is.
SearchErrorSkippedLater ==
    /\ [][(pc = "mark_not_found" /\ pc' = "for")
             => \E r \in ledger' : /\ r.artist_id = artist
                                   /\ r.success = FALSE
                                   /\ r.spotify_id = NoneId
                                   /\ r.error_message = NotFoundMsg]_vars
    /\ [][(\E r \in ledger : r.artist_id = artist /\ r.error_message = NotFoundMsg
                                                 /\ r.processed_date < now)
             => /\ pc' \notin {"search", "except"}
                /\ ledger' = ledger]_vars

\* C28 (as the spec states it): every iteration of the loop of main.py:51, the
\* skip of an artist that has an entry included, advances the progress counter
\* by one, so that the counter of a finished pass is the number of artists.
ProgressCountsArtists ==
    /\ [][(pc # "for" /\ pc' = "for" /\ run' = run) => pbar_n' = pbar_n + 1]_vars
    /\ [](pc = "done" => pbar_n = NumArtists)

\* C27 (as the spec states it): a batch of artists with distinct ids, none of
\* which has an entry, and collaborators that answer each artist in one way:
\* when every task of process_artist_batch has returned, the ledger holds for
\* each artist one entry, with the success flag, catalog id and error text of
\* the entry that the loop of main() writes for that artist.
ModeEquivalence ==
    (call.fn = "process_artist_batch" /\ \A t \in Tasks : tasks[t].pc = "done") =>
        \A t \in Tasks :
            /\ Cardinality({r \in ledger : r.artist_id = tasks[t].artist}) = 1
            /\ \A r \in ledger :
                  r.artist_id = tasks[t].artist =>
                      <<r.success, r.spotify_id, r.error_message>>
                          = main_entry(tasks[t].artist, call.env[tasks[t].artist])

====
